---- MODULE Spec2Model ----
(***************************************************************************)
(* A model of the FTP mirroring script of camDownloaderScript1.            *)
(*                                                                         *)
(* Two versions of the script are in the repository: the configurable one  *)
(* (src/unnamed/part_000, "hardened") and the earlier one with hard-coded  *)
(* settings (src/ftpScript.js, "simple").  The variable `variant` says     *)
(* which of the two is running; every action follows the code of that      *)
(* version.                                                                *)
(*                                                                         *)
(* Paths are sequences of names.  A remote path is relative to the         *)
(* configured remote root, a local path to the configured local root, so   *)
(* the local mirror of a remote path is the same sequence.                 *)
(*                                                                         *)
(* The transport (basic-ftp), the remote session (ssh2), readline and the  *)
(* file system are the environment.  A call to them either succeeds or     *)
(* fails; a failure is either forced by the state (a file that is not in   *)
(* the working directory cannot be fetched or removed) or an injected      *)
(* transient fault, of which there are at most MaxFaults.                  *)
(***************************************************************************)
EXTENDS Naturals, Sequences, FiniteSets

VARIABLES
    variant,           \* "hardened" (part_000) or "simple" (ftpScript.js)
    deleteRemoteFiles, \* config.deleteRemoteFiles / DELETE_REMOTE_FILES
    sshConfig,         \* optional fields config.sshConfig / sshConfig holds
    remoteDirs,        \* directories on the server
    remoteFiles,       \* files on the server
    localDirs,         \* local directories
    localFiles,        \* local files
    connected,         \* the run's ftpClient holds an open connection
    cwd,               \* working directory of the transport connection
    pc,                \* "connect" | "walk" | "prompt" | "done" | "exit" |
                       \* "aborted"
    stack,             \* active downloadDirectory calls, innermost last
    rl,                \* the readline interface: "null" | "open" | "closed"
    open,              \* what the process holds: mains in their try block,
                       \* open transport connections, open readline interfaces
    ssh,               \* number of restartFTP sessions in each state
    runs,              \* number of invocations of main so far
    faults,            \* number of injected transient failures so far
    answer,            \* the operator input read by the step just taken
    keyRead,           \* outcome of that step's read of the private key file
    calls,             \* calls to transport / session made by that step
    removed,           \* remote files the engine's deleteFile has removed
    fetchIssued,       \* entries a fetch was issued for in this run
    fetchedOk,         \* entries whose fetch reported success in this run
    encountered,       \* remote directories this run has encountered
    mkdirFailed,       \* a local mkdir has failed in this run
    removeFailed,      \* a deleteFile call has failed in this run
    remoteFiles0       \* the server's files when the model starts

vars == <<variant, deleteRemoteFiles, sshConfig, remoteDirs, remoteFiles,
          localDirs, localFiles, connected, cwd, pc, stack, rl, open, ssh, runs,
          faults, answer, keyRead, calls, removed, fetchIssued, fetchedOk, encountered,
          mkdirFailed, removeFailed, remoteFiles0>>

---------------------------------------------------------------------------
(* Bounds *)

MaxRuns == 3
MaxFaults == 2

(* The remote names the model draws trees from. *)
Root == << >>
Home == <<"~">>
DirPaths == {Root, <<"s">>}
FilePaths == {<<"f">>, <<"s", "f">>, <<"s", "g">>}
Names == {"s", "f", "g"}

Parent(p) == SubSeq(p, 1, Len(p) - 1)

(* path.posix.join(remoteDir, name) and path.join(localDir, name) *)
Join(d, n) == Append(d, n)

WellFormed(dirs, files) ==
    /\ \A d \in dirs : d = Root \/ Parent(d) \in dirs
    /\ \A f \in files : Parent(f) \in dirs

RECURSIVE Perms(_)
Perms(S) ==
    IF S = {} THEN {<< >>}
    ELSE UNION {{<<x>> \o p : p \in Perms(S \ {x})} : x \in S}

(* One entry of a listing: basic-ftp FileInfo, reduced to name and kind. *)
Entry(d, n) == [name |-> n, isDirectory |-> Join(d, n) \in remoteDirs]

EntryNames(d) == {n \in Names : Join(d, n) \in remoteDirs \cup remoteFiles}

(* ftpClient.list(): the entries of the working directory, in any order. *)
Listings(d) ==
    {[i \in 1..Len(p) |-> Entry(d, p[i])] : p \in Perms(EntryNames(d))}

Call(op, arg, dir, ok) ==
    [op |-> op, arg |-> arg, cwd |-> cwd, dir |-> dir, ok |-> ok]

Frame(remoteDir, localDir, remoteEmpty) ==
    [remoteDir |-> remoteDir, localDir |-> localDir,
     remoteEmpty |-> remoteEmpty, st |-> "cd", files |-> << >>]

Top == stack[Len(stack)]
Pop == SubSeq(stack, 1, Len(stack) - 1)
SetTop(f) == [stack EXCEPT ![Len(stack)] = f]

RECURSIVE Unwind(_)
(* A downloadDirectory call whose for-loop has no entry left returns to its
   caller, whose loop goes on (part_000 lines 100-121). *)
Unwind(s) ==
    IF s # << >> /\ s[Len(s)].st = "loop" /\ s[Len(s)].files = << >>
    THEN Unwind(SubSeq(s, 1, Len(s) - 1))
    ELSE s

(* The optional authentication fields of sshConfig (README, Configuration
   Fields): which of them the configuration holds. *)
AuthFields == {"agent", "privateKeyPath"}

(* The sshConfig of the README's example config.json *)
ExampleConfig == {"agent", "privateKeyPath"}

(* The sshConfig object of ftpScript.js *)
SimpleConfig == {"agent"}

(* restartFTP sessions that have not ended, by state *)
NoSession == [st \in {"connecting", "exec", "running"} |-> 0]

(* A process that has just called main() *)
Started == [active |-> 1, clients |-> 0, interfaces |-> 0]

FaultChoice == IF faults < MaxFaults THEN BOOLEAN ELSE {FALSE}
Count(b) == IF b THEN 1 ELSE 0

(* ftpClient.close(): part_000 guards it by !ftpClient.closed, ftpScript.js
   calls it again in finally; a close of a client that is already closed
   does no transport I/O and is not recorded. *)
CloseIfOpen(cs) ==
    IF connected THEN Append(cs, Call("close", Root, Root, TRUE)) ELSE cs

---------------------------------------------------------------------------
(* Initial states: any tree over the names above on the server, any local
   tree (the local root itself may not exist yet), either version of the
   script, main() called and awaiting the connection. *)

Init ==
    /\ variant \in {"hardened", "simple"}
    /\ deleteRemoteFiles \in BOOLEAN
    /\ variant = "simple" => deleteRemoteFiles
    /\ sshConfig = IF variant = "hardened" THEN ExampleConfig ELSE SimpleConfig
    /\ remoteDirs \in {d \in SUBSET DirPaths : Root \in d}
    /\ remoteFiles \in SUBSET FilePaths
    /\ WellFormed(remoteDirs, remoteFiles)
    /\ localDirs \in SUBSET DirPaths
    /\ localFiles \in SUBSET FilePaths
    /\ WellFormed(localDirs, localFiles)
    /\ connected = FALSE
    /\ cwd = Home
    /\ pc = "connect"
    /\ stack = << >>
    /\ rl = "null"
    /\ open = Started
    /\ ssh = NoSession
    /\ runs = 1
    /\ faults = 0
    /\ answer = "none"
    /\ keyRead = "none"
    /\ calls = << >>
    /\ removed = {}
    /\ fetchIssued = {}
    /\ fetchedOk = {}
    /\ encountered = {Root}
    /\ mkdirFailed = FALSE
    /\ removeFailed = FALSE
    /\ remoteFiles0 = remoteFiles

Config == <<variant, deleteRemoteFiles, sshConfig, remoteFiles0>>

(* The step reads no operator input and no key file. *)
NoInput == answer' = "none" /\ keyRead' = "none"
Remote == <<remoteDirs, remoteFiles, removed>>
Local == <<localDirs, localFiles, mkdirFailed>>
RunLog == <<fetchIssued, fetchedOk, encountered, removeFailed>>

---------------------------------------------------------------------------
(* main: the outcomes of its try / catch / finally *)

(* Mutant: main marks the configured root as removable. *)
RootRemoteEmptyMutant == TRUE

(* The remoteEmpty argument main passes for the configured root. *)
RootRemoteEmpty == FALSE

(* Mutant: main's catch block leaves the client as it is. *)
CatchClosesMutant == FALSE

(* main's catch block closes the client before it calls waitForExit. *)
CatchCloses == TRUE

(* waitForExit makes a readline interface: part_000 when rl is null or
   closed, ftpScript.js on every call. *)
CreatesInterface == variant = "simple" \/ rl # "open"

(* finally closes rl if it is open: part_000 only. *)
FinallyClosesInterface(r) == variant = "hardened" /\ r = "open"

(* catch (err): close the client if open, then waitForExit creates the
   readline interface if there is none open and asks the question. *)
Catch(cs) ==
    /\ stack' = << >>
    /\ pc' = "prompt"
    /\ connected' = (connected /\ ~CatchCloses)
    /\ rl' = "open"
    /\ cwd' = Home
    /\ calls' = IF CatchCloses THEN CloseIfOpen(cs) ELSE cs
    /\ open' = [active |-> open.active - 1,
                clients |-> open.clients - Count(connected /\ CatchCloses),
                interfaces |-> open.interfaces + Count(CreatesInterface)]

(* finally, after the try block completed: close the client and readline. *)
Finish(cs) ==
    /\ stack' = << >>
    /\ pc' = "done"
    /\ connected' = FALSE
    /\ rl' = IF FinallyClosesInterface(rl) THEN "closed" ELSE rl
    /\ cwd' = Home
    /\ calls' = CloseIfOpen(cs)
    /\ open' = [active |-> open.active - 1,
                clients |-> open.clients - Count(connected),
                interfaces |-> open.interfaces
                                 - Count(FinallyClosesInterface(rl))]

(* The traversal goes on with stack s, or main's try block is complete. *)
Goto(s, wd, cs) ==
    IF Unwind(s) = << >>
    THEN Finish(cs)
    ELSE /\ stack' = Unwind(s)
         /\ pc' = "walk"
         /\ connected' = connected
         /\ rl' = rl
         /\ cwd' = wd
         /\ calls' = cs
         /\ open' = open

(* await ftpClient.access(config.ftpConfig), then the call of
   downloadDirectory for the configured root. *)
Connect ==
    /\ pc = "connect"
    /\ \E fault \in FaultChoice :
         /\ faults' = faults + Count(fault)
         /\ IF fault
            THEN Catch(<<Call("connect", Root, Root, FALSE)>>)
            ELSE /\ stack' = <<Frame(Root, Root, RootRemoteEmpty)>>
                 /\ pc' = "walk"
                 /\ connected' = TRUE
                 /\ rl' = rl
                 /\ cwd' = Home
                 /\ calls' = <<Call("connect", Root, Root, TRUE)>>
                 /\ open' = [open EXCEPT !.clients = @ + 1]
    /\ NoInput
    /\ UNCHANGED <<Config, Remote, Local, RunLog, ssh, runs>>

---------------------------------------------------------------------------
(* downloadDirectory *)

InCall(st) == pc = "walk" /\ stack # << >> /\ Top.st = st

(* await ftpClient.cd(remoteDir) *)
ChangeDir ==
    /\ InCall("cd")
    /\ \E fault \in FaultChoice :
         LET dir == Top.remoteDir
             ok == ~fault /\ dir \in remoteDirs
             cs == <<Call("cd", dir, dir, ok)>>
         IN /\ faults' = faults + Count(fault)
            /\ IF ok THEN Goto(SetTop([Top EXCEPT !.st = "list"]), dir, cs)
               ELSE IF variant = "hardened" THEN Goto(Pop, cwd, cs)
               ELSE Catch(cs)
    /\ NoInput
    /\ UNCHANGED <<Config, Remote, Local, RunLog, ssh, runs>>

(* const files = await ftpClient.list() *)
List ==
    /\ InCall("list")
    /\ \E fault \in FaultChoice :
         /\ faults' = faults + Count(fault)
         /\ IF fault
            THEN /\ Catch(<<Call("list", Root, Top.remoteDir, FALSE)>>)
                 /\ encountered' = encountered
            ELSE \E l \in Listings(cwd) :
                 /\ Goto(SetTop([Top EXCEPT !.st = "listed", !.files = l]),
                         cwd, <<Call("list", Root, Top.remoteDir, TRUE)>>)
                 /\ encountered' = encountered \cup
                      {Join(Top.remoteDir, l[i].name) :
                         i \in {j \in 1..Len(l) : l[j].isDirectory}}
    /\ NoInput
    /\ UNCHANGED <<Config, Remote, Local, ssh, runs,
                   fetchIssued, fetchedOk, removeFailed>>

(* if (files.length === 0) { if (remoteEmpty) removeDir(remoteDir) }
   basic-ftp's removeDir leaves the connection in the parent of the
   directory it removed. *)
EmptyCheck ==
    /\ InCall("listed")
    /\ LET dir == Top.remoteDir
           next == SetTop([Top EXCEPT !.st = "loop"])
       IN IF Len(Top.files) = 0 /\ Top.remoteEmpty
          THEN \E fault \in FaultChoice :
                 LET ok == ~fault /\ dir \in remoteDirs /\ dir # Root
                     cs == <<Call("removeDir", dir, dir, ok)>>
                 IN /\ faults' = faults + Count(fault)
                    /\ remoteDirs' = IF ok THEN remoteDirs \ {dir} ELSE remoteDirs
                    /\ IF ok THEN Goto(next, Parent(dir), cs)
                       ELSE IF variant = "hardened" THEN Goto(next, cwd, cs)
                       ELSE Catch(cs)
          ELSE /\ Goto(next, cwd, << >>)
               /\ UNCHANGED <<faults, remoteDirs>>
    /\ NoInput
    /\ UNCHANGED <<Config, remoteFiles, removed, Local, RunLog, ssh, runs>>

(* if (item.isDirectory): make the local directory if it is not there, then
   recurse with remoteEmpty = true.  mkdirSync fails when the parent is
   missing or on an injected fault; the hardened version then skips the
   entry, the simple version lets the exception propagate. *)
EnterDirectory ==
    /\ InCall("loop")
    /\ Top.files # << >>
    /\ Head(Top.files).isDirectory
    /\ LET item == Head(Top.files)
           rest == SetTop([Top EXCEPT !.files = Tail(Top.files)])
           subDirPathLocal == Join(Top.localDir, item.name)
           subDirPathRemote == Join(Top.remoteDir, item.name)
           push == Append(rest, Frame(subDirPathRemote, subDirPathLocal, TRUE))
       IN IF subDirPathLocal \in localDirs
          THEN /\ Goto(push, cwd, << >>)
               /\ UNCHANGED <<faults, Local>>
          ELSE \E fault \in FaultChoice :
                 LET ok == ~fault /\ Top.localDir \in localDirs
                 IN /\ faults' = faults + Count(fault)
                    /\ localDirs' = IF ok THEN localDirs \cup {subDirPathLocal}
                                    ELSE localDirs
                    /\ mkdirFailed' = (mkdirFailed \/ ~ok)
                    /\ localFiles' = localFiles
                    /\ IF ok THEN Goto(push, cwd, << >>)
                       ELSE IF variant = "hardened" THEN Goto(rest, cwd, << >>)
                       ELSE Catch(<< >>)
    /\ NoInput
    /\ UNCHANGED <<Config, Remote, RunLog, ssh, runs>>

---------------------------------------------------------------------------
(* handleFileDownload (part_000) and the else-branch of the loop
   (ftpScript.js).  Both name the remote file by its bare name, so the
   transport acts on that name in its working directory. *)

(* Mutant: the reconcile step removes whatever the policy flag says. *)
ShouldDeleteMutant(deleteRemote) == TRUE

(* Mutant: the reconcile step never removes. *)
NeverDelete(deleteRemote) == FALSE

(* if (deleteRemote): the policy flag, as the reconcile step reads it *)
ShouldDelete(deleteRemote) == deleteRemote

Outcome(cs, rm, got, thrown, nf) ==
    [calls |-> cs, rm |-> rm, got |-> got, thrown |-> thrown, nf |-> nf]

(* ftpClient.downloadTo(localFilePath, name) succeeds when the working
   directory holds the name and the local file can be created. *)
FetchOk(name, localDir, fault) ==
    ~fault /\ Join(cwd, name) \in remoteFiles /\ localDir \in localDirs

(* ftpClient.remove(name) succeeds when the working directory holds it. *)
RemoveOk(name, fault) == ~fault /\ Join(cwd, name) \in remoteFiles

(* part_000 lines 36-70 *)
ReconcileHardened(name, dir, localDir, deleteRemote, f1, f2) ==
    LET target == Join(cwd, name)
        Fetch(ok) == Call("fetch", <<name>>, dir, ok)
        Remove(ok) == Call("remove", <<name>>, dir, ok)
    IN IF Join(localDir, name) \in localFiles
       THEN IF ShouldDelete(deleteRemote)
            THEN LET ok == RemoveOk(name, f1)
                 IN Outcome(<<Remove(ok)>>, IF ok THEN {target} ELSE {},
                            FALSE, FALSE, Count(f1))
            ELSE Outcome(<< >>, {}, FALSE, FALSE, 0)
       ELSE IF ~FetchOk(name, localDir, f1)
            THEN Outcome(<<Fetch(FALSE)>>, {}, FALSE, FALSE, Count(f1))
            ELSE IF ShouldDelete(deleteRemote)
                 THEN LET ok == RemoveOk(name, f2)
                      IN Outcome(<<Fetch(TRUE), Remove(ok)>>,
                                 IF ok THEN {target} ELSE {},
                                 TRUE, FALSE, Count(f2))
                 ELSE Outcome(<<Fetch(TRUE)>>, {}, TRUE, FALSE, 0)

(* ftpScript.js lines 45-63: the catch block that downloads a missing file
   also catches a failure of the removal in the try block; nothing guards the
   calls in the catch block.  The existence test is made on the path with
   '/' replaced by '\', which on the Windows paths the script is written
   for names the same file as localFilePath. *)
ReconcileSimple(name, dir, localDir, deleteRemote, f1, f2, f3) ==
    LET target == Join(cwd, name)
        Fetch(ok) == Call("fetch", <<name>>, dir, ok)
        Remove(ok) == Call("remove", <<name>>, dir, ok)
        Download(before, fa, fb, nf) ==
            IF ~FetchOk(name, localDir, fa)
            THEN Outcome(Append(before, Fetch(FALSE)), {}, FALSE, TRUE,
                         nf + Count(fa))
            ELSE IF deleteRemote
                 THEN LET ok == RemoveOk(name, fb)
                      IN Outcome(before \o <<Fetch(TRUE), Remove(ok)>>,
                                 IF ok THEN {target} ELSE {},
                                 TRUE, ~ok, nf + Count(fb))
                 ELSE Outcome(Append(before, Fetch(TRUE)), {}, TRUE, FALSE, nf)
    IN IF Join(localDir, name) \in localFiles
       THEN IF deleteRemote
            THEN IF RemoveOk(name, f1)
                 THEN Outcome(<<Remove(TRUE)>>, {target}, FALSE, FALSE, 0)
                 ELSE Download(<<Remove(FALSE)>>, f2, f3, Count(f1))
            ELSE Outcome(<< >>, {}, FALSE, FALSE, 0)
       ELSE Download(<< >>, f1, f2, 0)

Reconcile(name, dir, localDir, deleteRemote, f1, f2, f3) ==
    IF variant = "hardened"
    THEN ReconcileHardened(name, dir, localDir, deleteRemote, f1, f2)
    ELSE ReconcileSimple(name, dir, localDir, deleteRemote, f1, f2, f3)

HasCall(cs, op, ok) == \E i \in 1..Len(cs) : cs[i].op = op /\ cs[i].ok = ok

(* else if (item.isFile): handleFileDownload for the entry *)
HandleFile ==
    /\ InCall("loop")
    /\ Top.files # << >>
    /\ ~Head(Top.files).isDirectory
    /\ \E f1, f2, f3 \in BOOLEAN :
         LET item == Head(Top.files)
             rest == SetTop([Top EXCEPT !.files = Tail(Top.files)])
             entry == Join(Top.remoteDir, item.name)
             r == Reconcile(item.name, Top.remoteDir, Top.localDir,
                            deleteRemoteFiles, f1, f2, f3)
         IN /\ r.nf = Count(f1) + Count(f2) + Count(f3)
            /\ faults + r.nf <= MaxFaults
            /\ faults' = faults + r.nf
            /\ remoteFiles' = remoteFiles \ r.rm
            /\ removed' = removed \cup r.rm
            /\ localFiles' = IF r.got
                             THEN localFiles \cup {Join(Top.localDir, item.name)}
                             ELSE localFiles
            /\ fetchIssued' = IF \E i \in 1..Len(r.calls) : r.calls[i].op = "fetch"
                              THEN fetchIssued \cup {entry} ELSE fetchIssued
            /\ fetchedOk' = IF r.got THEN fetchedOk \cup {entry} ELSE fetchedOk
            /\ removeFailed' = (removeFailed \/ HasCall(r.calls, "remove", FALSE))
            /\ IF r.thrown THEN Catch(r.calls) ELSE Goto(rest, cwd, r.calls)
    /\ NoInput
    /\ UNCHANGED <<Config, remoteDirs, localDirs, mkdirFailed, encountered,
                   ssh, runs>>

---------------------------------------------------------------------------
(* restartFTP: one ssh2 session per call.  connect() is issued by the call
   itself; the rest happens in event handlers, whenever the events arrive. *)

Session(op) == Call(op, Root, Root, TRUE)

(* The step of restartFTP that reads the key file: taken only by part_000,
   and only when sshConfig.privateKeyPath is set. *)
ReadsKey == variant = "hardened" /\ "privateKeyPath" \in sshConfig

(* Mutant: the agent setting stays when the key has been loaded. *)
SessionConfigMutant(cfg, readable) ==
    IF ReadsKey /\ readable THEN cfg \cup {"privateKey"} ELSE cfg

(* The fields of the object given to conn.connect.  part_000: a copy of
   config.sshConfig; with privateKeyPath set, privateKey is added and agent
   deleted when readFileSync succeeds, privateKey deleted when it throws.
   ftpScript.js: sshConfig itself. *)
SessionConfig(cfg, readable) ==
    IF ReadsKey
    THEN IF readable THEN (cfg \cup {"privateKey"}) \ {"agent"}
         ELSE cfg \ {"privateKey"}
    ELSE cfg

(* conn.connect(sshConnectionConfig) *)
SessionConnect(cfg) == Call("sshConnect", cfg, Root, TRUE)

(* A session leaves `from` for `to`; a session that has ended is dropped. *)
Move(from, to) ==
    [st \in DOMAIN ssh |->
        ssh[st] - Count(st = from) + Count(st = to)]

SshStep(from, to, cs) ==
    /\ ssh' = Move(from, to)
    /\ calls' = cs
    /\ NoInput
    /\ UNCHANGED <<Config, Remote, Local, RunLog, connected, cwd, pc, stack,
                   rl, open, runs, faults>>

(* conn.on('ready'): conn.exec(command, ...) *)
SshReady ==
    /\ ssh["connecting"] > 0
    /\ SshStep("connecting", "exec", <<Session("sshExec")>>)

(* Mutant: an error of the restart session is thrown into the run. *)
SshErrorMutant ==
    /\ ssh["connecting"] > 0
    /\ ssh' = Move("connecting", "ended")
    /\ Catch(<< >>)
    /\ NoInput
    /\ UNCHANGED <<Config, Remote, Local, RunLog, runs, faults>>

(* conn.on('error'): logged *)
SshError ==
    /\ ssh["connecting"] > 0
    /\ SshStep("connecting", "ended", << >>)

(* exec's callback with err: conn.end() *)
SshExecError ==
    /\ ssh["exec"] > 0
    /\ SshStep("exec", "ended", <<Session("sshEnd")>>)

(* exec's callback with the stream of the running command *)
SshStream ==
    /\ ssh["exec"] > 0
    /\ SshStep("exec", "running", << >>)

(* stream.on('close'): conn.end() *)
SshStreamClose ==
    /\ ssh["running"] > 0
    /\ SshStep("running", "ended", <<Session("sshEnd")>>)

SshActive == ssh # NoSession

---------------------------------------------------------------------------
(* waitForExit's question callback, and what the main that awaited it does
   once the promise resolves. *)

Inputs == {"1", "2", "x"}

(* Mutant: the restart is also triggered by a plain retry. *)
RestartsMutant(a) == IF a \in {"1", "2"} THEN 1 ELSE 0

(* number of restartFTP calls the callback makes for an answer *)
Restarts(a) == IF a = "2" THEN 1 ELSE 0

(* the callback re-invokes main for this answer *)
Retries(a) == a \in {"1", "2"}

(* main(): a new client; the per-run records start afresh *)
StartRun ==
    /\ pc' = "connect"
    /\ stack' = << >>
    /\ connected' = FALSE
    /\ cwd' = Home
    /\ runs' = runs + 1
    /\ fetchIssued' = {}
    /\ fetchedOk' = {}
    /\ encountered' = {Root}
    /\ mkdirFailed' = FALSE
    /\ removeFailed' = FALSE

(* Mutant: the callback closes the interface only when the operator exits. *)
ClosedByCallbackMutant(a) == ~Retries(a)

(* The question callback closes the interface: ftpScript.js first thing, for
   every answer; part_000 only when the answer is not a retry. *)
ClosedByCallback(a) == variant = "simple" \/ ~Retries(a)

(* The callback runs to its end (a re-invoked main to its first await), then
   the promise resolves and the main that awaited it runs its finally. *)
Answer ==
    /\ pc = "prompt"
    /\ \E a \in Inputs, readable \in BOOLEAN :
         /\ Retries(a) => runs < MaxRuns
         /\ answer' = a
         /\ keyRead' = IF Restarts(a) > 0 /\ ReadsKey
                       THEN IF readable THEN "read" ELSE "unreadable"
                       ELSE "none"
         /\ ssh' = [ssh EXCEPT !.connecting = @ + Restarts(a)]
         /\ calls' = CloseIfOpen(
                        [i \in 1..Restarts(a) |->
                           SessionConnect(SessionConfig(sshConfig, readable))])
         /\ LET closed == ClosedByCallback(a) \/ FinallyClosesInterface(rl)
            IN /\ rl' = IF closed THEN "closed" ELSE rl
               /\ open' = [active |-> open.active + Count(Retries(a)),
                           clients |-> open.clients - Count(connected),
                           interfaces |-> open.interfaces - Count(closed)]
         /\ IF Retries(a)
            THEN StartRun
            ELSE /\ pc' = "exit"
                 /\ connected' = FALSE
                 /\ UNCHANGED <<stack, cwd, runs, RunLog, mkdirFailed>>
    /\ UNCHANGED <<Config, Remote, localDirs, localFiles, faults>>

(* rl.question throws on the interface waitForExit has just made.  part_000
   catches it, closes the interface and resolves, so main goes on to its
   finally; in ftpScript.js the exception rejects the promise and with it
   main, and nothing closes the interface. *)
QuestionThrows ==
    /\ pc = "prompt"
    /\ faults < MaxFaults
    /\ faults' = faults + 1
    /\ pc' = "aborted"
    /\ connected' = FALSE
    /\ calls' = CloseIfOpen(<< >>)
    /\ LET closed == variant = "hardened"
       IN /\ rl' = IF closed THEN "closed" ELSE rl
          /\ open' = [active |-> open.active,
                      clients |-> open.clients - Count(connected),
                      interfaces |-> open.interfaces - Count(closed)]
    /\ NoInput
    /\ UNCHANGED <<Config, Remote, Local, RunLog, cwd, stack, ssh, runs>>

(* node ftpScript.js, once the previous process has ended *)
Launch ==
    /\ pc \in {"done", "exit", "aborted"}
    /\ ~SshActive
    /\ runs < MaxRuns
    /\ StartRun
    /\ rl' = "null"
    /\ open' = Started
    /\ ssh' = ssh
    /\ NoInput
    /\ calls' = << >>
    /\ UNCHANGED <<Config, Remote, localDirs, localFiles, faults>>

---------------------------------------------------------------------------

Next ==
    \/ Connect
    \/ ChangeDir
    \/ List
    \/ EmptyCheck
    \/ EnterDirectory
    \/ HandleFile
    \/ Answer
    \/ QuestionThrows
    \/ Launch
    \/ SshReady
    \/ SshError
    \/ SshExecError
    \/ SshStream
    \/ SshStreamClose

Spec == Init /\ [][Next]_vars

(* The same program on one remote tree, under every sshConfig the
   configuration file can hold. *)
InitAuth ==
    /\ variant \in {"hardened", "simple"}
    /\ deleteRemoteFiles \in BOOLEAN
    /\ variant = "simple" => deleteRemoteFiles
    /\ sshConfig \in IF variant = "hardened" THEN SUBSET AuthFields
                     ELSE {SimpleConfig}
    /\ remoteDirs = DirPaths
    /\ remoteFiles = {<<"f">>, <<"s", "f">>}
    /\ localDirs = {Root}
    /\ localFiles = {}
    /\ connected = FALSE
    /\ cwd = Home
    /\ pc = "connect"
    /\ stack = << >>
    /\ rl = "null"
    /\ open = Started
    /\ ssh = NoSession
    /\ runs = 1
    /\ faults = 0
    /\ answer = "none"
    /\ keyRead = "none"
    /\ calls = << >>
    /\ removed = {}
    /\ fetchIssued = {}
    /\ fetchedOk = {}
    /\ encountered = {Root}
    /\ mkdirFailed = FALSE
    /\ removeFailed = FALSE
    /\ remoteFiles0 = remoteFiles

SpecAuth == InitAuth /\ [][Next]_vars

(* Runs repeated on an environment that does not fail: deleteRemoteFiles is
   true, the local root exists, and the budget of injected failures is spent
   from the start, so every call fails only when the state forces it to.
   The operator answers every prompt and starts the script again when it has
   ended, until MaxRuns runs have been made. *)
InitDrain ==
    /\ variant \in {"hardened", "simple"}
    /\ deleteRemoteFiles = TRUE
    /\ sshConfig = IF variant = "hardened" THEN ExampleConfig ELSE SimpleConfig
    /\ remoteDirs \in {d \in SUBSET DirPaths : Root \in d}
    /\ remoteFiles \in SUBSET FilePaths
    /\ WellFormed(remoteDirs, remoteFiles)
    /\ localDirs \in {d \in SUBSET DirPaths : Root \in d}
    /\ localFiles \in SUBSET FilePaths
    /\ WellFormed(localDirs, localFiles)
    /\ connected = FALSE
    /\ cwd = Home
    /\ pc = "connect"
    /\ stack = << >>
    /\ rl = "null"
    /\ open = Started
    /\ ssh = NoSession
    /\ runs = 1
    /\ faults = MaxFaults
    /\ answer = "none"
    /\ keyRead = "none"
    /\ calls = << >>
    /\ removed = {}
    /\ fetchIssued = {}
    /\ fetchedOk = {}
    /\ encountered = {Root}
    /\ mkdirFailed = FALSE
    /\ removeFailed = FALSE
    /\ remoteFiles0 = remoteFiles

NextDrain ==
    \/ Connect
    \/ ChangeDir
    \/ List
    \/ EmptyCheck
    \/ EnterDirectory
    \/ HandleFile
    \/ Answer
    \/ Launch
    \/ SshReady
    \/ SshError
    \/ SshExecError
    \/ SshStream
    \/ SshStreamClose

SpecDrain == InitDrain /\ [][NextDrain]_vars /\ WF_vars(NextDrain)

---------------------------------------------------------------------------
(* Claims *)

(* C1: deletion safety.  Every remote file the engine has removed has a
   local file at its mirrored local path. *)
DeletionSafety == removed \subseteq localFiles

(* C2: idempotence.  With deleteRemoteFiles false, once a first run has gone
   through without any transport or local failure being injected (the local
   root exists), a later run issues no fetch. *)
Idempotent ==
    (~deleteRemoteFiles /\ runs >= 2 /\ faults = 0 /\ Root \in localDirs)
        => fetchIssued = {}

IssuesRemoveDir(cs) == \E i \in 1..Len(cs) : cs[i].op = "removeDir"

(* The innermost call was entered by a recursive descent and its listing
   has just returned zero entries. *)
CleanupDue ==
    /\ pc = "walk"
    /\ Len(stack) > 1
    /\ Top.st = "listed"
    /\ Top.files = << >>

(* C3: empty-directory cleanup.  A step issues deleteDirectory exactly when
   the directory was entered by a recursive descent and its listing in this
   visit returned zero entries, and then for that directory; the configured
   root is never passed to deleteDirectory. *)
EmptyDirCleanup ==
    [][ /\ IssuesRemoveDir(calls') =>
             /\ CleanupDue
             /\ Cardinality({i \in 1..Len(calls') : calls'[i].op = "removeDir"}) = 1
             /\ calls'[1].op = "removeDir"
             /\ calls'[1].arg = Top.remoteDir
             /\ calls'[1].arg # Root
        /\ (CleanupDue /\ stack' # stack) => IssuesRemoveDir(calls')
      ]_vars

(* An empty subdirectory has been removed although deleteRemoteFiles is
   false. *)
EmptyDirCleanupWitness ==
    /\ ~deleteRemoteFiles
    /\ calls # << >>
    /\ calls[1].op = "removeDir"
    /\ calls[1].ok
    /\ calls[1].arg \notin remoteDirs

(* C4: local mirroring.  After a run has completed in which no local
   directory creation failed, every remote directory the run encountered
   (the root and every directory entry of a listing) has its local
   directory.  Stated for the executions without any injected failure. *)
LocalMirroring ==
    (pc = "done" /\ ~mkdirFailed /\ faults = 0)
        => encountered \subseteq localDirs

SessionCalls(cs) ==
    {i \in 1..Len(cs) : cs[i].op \in {"sshConnect", "sshExec", "sshEnd"}}

(* The step re-invokes the whole run: a new main, awaiting a new connection,
   with no traversal left over. *)
Reinvoked ==
    /\ pc' = "connect"
    /\ runs' = runs + 1
    /\ stack' = << >>
    /\ ~connected'

(* C5: recovery routing.  At a recovery prompt, input "1" re-invokes the run
   from the configured root without invoking the restart capability; input
   "2" invokes the restart capability exactly once and re-invokes the run;
   a run that has connected starts at the configured root. *)
RecoveryRouting ==
    [][ /\ (pc = "prompt" /\ answer' = "1") =>
             /\ Reinvoked
             /\ ssh' = ssh
             /\ SessionCalls(calls') = {}
        /\ (pc = "prompt" /\ answer' = "2") =>
             /\ Reinvoked
             /\ ssh' = [ssh EXCEPT !.connecting = @ + 1]
             /\ Cardinality(SessionCalls(calls')) = 1
             /\ calls'[1].op = "sshConnect"
        /\ (pc = "connect" /\ pc' = "walk") =>
             /\ Len(stack') = 1
             /\ stack'[1].remoteDir = Root
             /\ stack'[1].st = "cd"
      ]_vars

(* The run re-invoked after input "2" is at the configured root with the one
   restart session that input opened. *)
RecoveryRoutingWitness ==
    /\ runs = 2
    /\ pc = "walk"
    /\ Top.remoteDir = Root
    /\ ssh.connecting = 1

(* C6: recovery exit.  After an operator input other than "1" or "2" no
   transport call and no restart-session call follows. *)
ExitIsQuiet == pc = "exit" => calls = << >>

(* The loop is at a file entry whose local file exists. *)
AtPresentFile ==
    /\ pc = "walk"
    /\ stack # << >>
    /\ Top.st = "loop"
    /\ Top.files # << >>
    /\ ~Head(Top.files).isDirectory
    /\ Join(Top.localDir, Head(Top.files).name) \in localFiles

(* C7: no fetch is issued for an entry whose local file exists when its
   reconcile step starts, whatever the outcome of the removal. *)
NoFetchWhenPresent ==
    [][ AtPresentFile => \A i \in 1..Len(calls') : calls'[i].op # "fetch" ]_vars

(* C8: with deleteRemoteFiles true, after a run has completed no file is both
   fetched successfully in that run and still on the server.  Stated for the
   runs in which no removal call failed. *)
FetchedThenDeleted ==
    (pc = "done" /\ deleteRemoteFiles /\ ~removeFailed)
        => fetchedOk \cap remoteFiles = {}

(* C9: escalation.  A failed connect, or a failed change-directory into the
   configured root, ends the run as failed with the recovery prompt asked. *)
Escalation ==
    \A i \in 1..Len(calls) :
        (/\ ~calls[i].ok
         /\ \/ calls[i].op = "connect"
            \/ calls[i].op = "cd" /\ calls[i].arg = Root)
        => pc = "prompt"

(* C10: with deleteRemoteFiles false no deleteFile call is issued and the
   files on the server stay as they were. *)
NoDeleteWhenOff ==
    ~deleteRemoteFiles =>
        /\ remoteFiles = remoteFiles0
        /\ \A i \in 1..Len(calls) : calls[i].op # "remove"

(* A later run has completed after fetching a file, which is still on the
   server. *)
NoDeleteWhenOffWitness ==
    /\ ~deleteRemoteFiles
    /\ runs > 1
    /\ pc = "done"
    /\ fetchedOk # {}
    /\ fetchedOk \subseteq remoteFiles

(* A call of the step repeats an earlier call of the same step, for the same
   entry of the same directory, that had failed. *)
ReissuedAfterFailure(cs) ==
    \E i, j \in 1..Len(cs) :
        /\ i < j
        /\ cs[i].op \in {"fetch", "remove", "list", "cd"}
        /\ cs[j].op = cs[i].op
        /\ cs[j].arg = cs[i].arg
        /\ cs[j].dir = cs[i].dir
        /\ ~cs[i].ok

(* C11: no automatic retry.  Within a process the run is invoked again only
   by a step that reads operator input "1" or "2" at the recovery prompt,
   once per such input; and no step issues a fetch, removal, listing or
   change-directory a second time for the same entry after it failed. *)
NoAutomaticRetry ==
    [][ /\ (runs' # runs /\ pc \notin {"done", "exit", "aborted"}) =>
             /\ pc = "prompt"
             /\ answer' \in {"1", "2"}
             /\ runs' = runs + 1
        /\ (pc = "prompt" /\ answer' \in {"1", "2"}) => runs' = runs + 1
        /\ ~ReissuedAfterFailure(calls')
      ]_vars

(* C12: SSH authentication precedence.  The restart session is opened with
   the private key and without an agent setting exactly when privateKeyPath
   is configured and the key file was read; otherwise the session config
   carries no privateKey and has the agent setting exactly when the
   configuration has it. *)
AuthPrecedence ==
    \A i \in 1..Len(calls) :
        calls[i].op = "sshConnect" =>
            IF "privateKeyPath" \in sshConfig /\ keyRead = "read"
            THEN /\ "privateKey" \in calls[i].arg
                 /\ "agent" \notin calls[i].arg
            ELSE /\ "privateKey" \notin calls[i].arg
                 /\ "agent" \in calls[i].arg <=> "agent" \in sshConfig

(* A restart session has been opened with the key that was read, from a
   configuration that also names an agent. *)
AuthPrecedenceWitness ==
    /\ sshConfig = {"agent", "privateKeyPath"}
    /\ keyRead = "read"
    /\ calls # << >>
    /\ calls[1].op = "sshConnect"
    /\ calls[1].arg = {"privateKeyPath", "privateKey"}

(* C13: working-directory invariant.  Whenever the reconcile step issues a
   fetch or a deleteFile for an entry of remote directory D, the working
   directory of the transport is D.  Stated for the executions without any
   injected failure. *)
WorkingDirectory ==
    faults = 0 =>
        \A i \in 1..Len(calls) :
            calls[i].op \in {"fetch", "remove"} => calls[i].cwd = calls[i].dir

(* The step had a fetch, a removal of a file or of a directory, or a local
   directory creation fail. *)
ItemFailure ==
    \/ \E i \in 1..Len(calls') :
          /\ calls'[i].op \in {"fetch", "remove", "removeDir"}
          /\ ~calls'[i].ok
    \/ mkdirFailed' /\ ~mkdirFailed

(* C14: per-item failure isolation.  A step in which a fetch, a remote
   removal or a local directory creation fails does not end the run as
   failed: the recovery prompt is not asked, and the traversal goes on with
   the entries that are left, or completes when none is left. *)
FailureIsolation ==
    [][ ItemFailure =>
            /\ pc' # "prompt"
            /\ pc' = "done" => Unwind(Pop) = << >>
      ]_vars

ListFailed(cs) == \E i \in 1..Len(cs) : cs[i].op = "list" /\ ~cs[i].ok

(* C15: a listing failure acts like a change-directory failure.  Stated for
   subdirectories: when the listing of a directory entered by a recursive
   descent fails, the run is not ended as failed and goes on with the entries
   left in the callers' listings. *)
ListLikeChangeDir ==
    [][ (ListFailed(calls') /\ Len(stack) > 1) =>
            /\ pc' # "prompt"
            /\ stack' = Unwind(Pop)
      ]_vars

(* C16: single flow.  At most one main is in its try block, at most one
   transport connection and at most one readline interface are open; and
   when an operator input re-invokes the run, the failed run's connection
   is closed and its traversal has stopped. *)
SingleFlow ==
    /\ [](/\ open.active <= 1
          /\ open.clients <= 1
          /\ open.interfaces <= 1)
    /\ [][ (pc = "prompt" /\ runs' = runs + 1) =>
               /\ open.active = 0
               /\ open.clients = 0
               /\ ~connected
               /\ stack = << >>
         ]_vars

(* The second retry has connected, after two failed runs and two prompts. *)
SingleFlowWitness ==
    /\ runs = 3
    /\ pc = "walk"
    /\ rl = "closed"
    /\ open = [active |-> 1, clients |-> 1, interfaces |-> 0]

(* C17: while the recovery prompt is outstanding, the transport connection
   of the run that failed is closed. *)
ClosedAtPrompt == pc = "prompt" => (~connected /\ open.clients = 0)

(* The prompt is outstanding after a run that had connected failed. *)
ClosedAtPromptWitness ==
    /\ pc = "prompt"
    /\ HasCall(calls, "list", FALSE)
    /\ HasCall(calls, "close", TRUE)

(* C18: interactive-input release.  When the process is at its end (the run
   completed, the operator chose to exit, or the prompt step threw) no
   readline interface is open. *)
InterfaceReleased ==
    pc \in {"done", "exit", "aborted"} => (rl # "open" /\ open.interfaces = 0)

(* A step of the run itself: of main's try block and the traversal. *)
RunStep ==
    \/ Connect
    \/ ChangeDir
    \/ List
    \/ EmptyCheck
    \/ EnterDirectory
    \/ HandleFile

(* C19: the restart is fire-and-forget.  The step that reads "2" opens the
   restart session and re-invokes the run; a run that is under way can take
   its next step whatever the state of the restart sessions; and a step of
   a restart session, its failure included, leaves the run as it is. *)
FireAndForget ==
    /\ []((pc \in {"connect", "walk"}) => ENABLED RunStep)
    /\ [][ /\ (pc = "prompt" /\ answer' = "2") =>
                /\ calls'[1].op = "sshConnect"
                /\ ssh'.connecting = ssh.connecting + 1
                /\ pc' = "connect"
           /\ (ssh' # ssh /\ answer' = "none") =>
                UNCHANGED <<pc, stack, connected, cwd, runs, open>>
         ]_vars

(* The retried run is connected and has listed the root while the restart
   session opened by "2" has not yet become ready. *)
FireAndForgetWitness ==
    /\ runs = 2
    /\ connected
    /\ HasCall(calls, "list", TRUE)
    /\ ssh.connecting = 1
    /\ ssh.exec = 0
    /\ ssh.running = 0

(* The remote root holds no file and no subdirectory, and every file that
   was on the server at the start has its local file. *)
Drained ==
    /\ remoteFiles = {}
    /\ remoteDirs = {Root}
    /\ remoteFiles0 \subseteq localFiles

(* C20: eventual drain.  With deleteRemoteFiles true and an environment that
   does not fail, repeated runs reach a state where the remote root is empty
   and every file originally on the server exists locally at its mirrored
   path; and a directory is removed only by a visit whose listing returned
   no entry, so a subdirectory listed non-empty goes in a later run. *)
EventualDrain ==
    /\ <>Drained
    /\ [][ IssuesRemoveDir(calls') =>
               /\ Top.st = "listed"
               /\ Top.files = << >>
         ]_vars

(* Drained after more than one run: the server held files in the root and
   in the subdirectory, which a later run has removed. *)
EventualDrainWitness ==
    /\ Drained
    /\ runs > 1
    /\ remoteFiles0 = FilePaths
    /\ localFiles = FilePaths
    /\ <<"s", "f">> \in removed
    /\ <<"f">> \in removed

====
